---- MODULE Spec2Model ----
(***************************************************************************)
(* State-machine model of the Gotify MQTT forwarding plugin                *)
(* (src/plugin.go): one MQTTPlugin instance, the host thread that calls    *)
(* its lifecycle hooks, a pool of HTTP workers that run the POST /message  *)
(* handler, and the broker link of the paho client the plugin holds.       *)
(***************************************************************************)
EXTENDS Integers, Sequences, FiniteSets, TLC

(* ------------------------------ bounds -------------------------------- *)
NumWorkers == 2   \* concurrent HTTP workers serving POST /message
MaxMsgs    == 2   \* inbound requests received in one run
MaxClients == 2   \* Enable() calls (mqtt.NewClient) in one run

Workers == 1..NumWorkers
Msgs    == 1..MaxMsgs
Clients == 1..MaxClients

(* ------------------------------ Go values ---------------------------- *)
NULL     == "nil"            \* a nil interface, error or string-valued field
NoConfig == <<>>             \* p.config == nil; <<c>> points to the config c
NoClient == 0                \* p.mqttClient == nil
NoIP     == <<>>             \* the nil net.IP
FREE     == 0                \* the zero sync.Mutex: unlocked
HOST     == NumWorkers + 1   \* the host thread, as the holder of p.mu
NoMsg    == 0                \* a worker that handles no request

(* ------------------- configurations offered by the host --------------- *)
\* IP strings are sequences of characters.
IP_10_0_0_5  == <<"1","0",".","0",".","0",".","5">>
IP_127_0_0_1 == <<"1","2","7",".","0",".","0",".","1">>
IP_999       == <<"9","9","9",".","9","9","9",".","9","9","9",".","9","9","9">>
IP_10_0_5    == <<"1","0",".","0",".","5">>
IP_host      == <<"m","q","t","t">>

IPs        == {IP_10_0_0_5, IP_127_0_0_1, IP_999, IP_10_0_5, IP_host}
Ports      == {0, 1, 1883, 65535, 65536}
KeepAlives == {-1, 0, 60}
Confs      == [IP : IPs, Port : Ports, KeepAlive : KeepAlives]

\* DefaultConfig (lines 142-151), the configuration the host starts from.
DefaultConfig == [IP |-> IP_127_0_0_1, Port |-> 1883, KeepAlive |-> 60]

(* ----------------------------- net.ParseIP ---------------------------- *)
Digits == {"0","1","2","3","4","5","6","7","8","9"}

DigitVal(c) ==
    CASE c = "0" -> 0 [] c = "1" -> 1 [] c = "2" -> 2 [] c = "3" -> 3
      [] c = "4" -> 4 [] c = "5" -> 5 [] c = "6" -> 6 [] c = "7" -> 7
      [] c = "8" -> 8 [] c = "9" -> 9

\* The dotted-decimal scan of net.ParseIP: s from position i on, val/digLen
\* the field being read, fields the octets read so far.  NoIP on any error.
RECURSIVE parseIPv4(_, _, _, _, _)
parseIPv4(s, i, val, digLen, fields) ==
    IF i > Len(s)
    THEN IF Len(fields) = 3 /\ digLen > 0 THEN Append(fields, val) ELSE NoIP
    ELSE IF s[i] \in Digits
         THEN IF digLen = 1 /\ val = 0
              THEN NoIP                              \* leading zero
              ELSE IF val * 10 + DigitVal(s[i]) > 255
                   THEN NoIP                         \* octet > 255
                   ELSE parseIPv4(s, i + 1, val * 10 + DigitVal(s[i]),
                                  digLen + 1, fields)
         ELSE IF s[i] = "."
              THEN IF digLen = 0 \/ i = Len(s) \/ Len(fields) = 3
                   THEN NoIP                         \* empty field, too long
                   ELSE parseIPv4(s, i + 1, 0, 0, Append(fields, val))
              ELSE NoIP                              \* unexpected character

\* net.ParseIP on each offered string (none holds a colon, so the scan above
\* is the whole of it).
ParsedIPs == [s \in IPs |-> parseIPv4(s, 1, 0, 0, <<>>)]

ParseIP(s) == ParsedIPs[s]

\* decision[m] before the handler reached line 116 for m.
NoDecision == [branch |-> "none", afterFailedEnable |-> FALSE]

(* ------------------------------ state --------------------------------- *)
VARIABLES
    config,        \* p.config: NoConfig or <<c>>, the installed MQTTConfig
    msgHandler,    \* p.msgHandler: NULL or the host's handler
    mqttClient,    \* p.mqttClient: NoClient or the client of the last Enable()
    basePath,      \* p.basePath: NULL until RegisterWebhook
    lastError,     \* p.lastError
    messageQueue,  \* p.messageQueue
    mu,            \* p.mu: FREE, HOST or the worker holding it
    conn,          \* link of the client p.mqttClient refers to: off / up / down
    nextClient,    \* clients created so far + 1
    hostPc,        \* where the host thread is inside Enable()
    hostRet,       \* what the last lifecycle hook returned
    rangeSlice,    \* the slice Enable()'s range loop iterates over
    rangeIdx,      \* the loop's position in it
    reqPc,         \* where each worker is inside the handler
    reqMsg,        \* the message each worker is handling, or NoMsg
    nextMsg,       \* requests received so far + 1
    hub,           \* per message: outcome of msgHandler.SendMessage
    resp,          \* per message: status code answered (0: none yet)
    decision,      \* per message: the branch line 116 took, and whether the
                   \*   last Enable() had failed to connect by then
    doneBefore,    \* per message: the messages answered before it arrived
    publog,        \* the calls of mqttClient.Publish, in order
    enableFailed,  \* the last Enable() attempt failed to connect
    qAtDisable,    \* the queue as it was at the last Disable()
    panicked       \* the nil dereference that aborted the host, if any

vars == <<config, msgHandler, mqttClient, basePath, lastError, messageQueue,
          mu, conn, nextClient, hostPc, hostRet, rangeSlice, rangeIdx, reqPc,
          reqMsg, nextMsg, hub, resp, decision, doneBefore,
          publog,
          enableFailed, qAtDisable, panicked>>

plugVars  == <<config, msgHandler, mqttClient, basePath, lastError,
               messageQueue, mu>>
hostVars  == <<hostPc, hostRet, rangeSlice, rangeIdx, nextClient>>
reqVars   == <<reqPc, reqMsg, nextMsg, hub, resp, decision, doneBefore>>
ghostVars == <<enableFailed, qAtDisable>>

Init ==
    /\ config = NoConfig
    /\ msgHandler = NULL
    /\ mqttClient = NoClient
    /\ basePath = NULL
    /\ lastError = NULL
    /\ messageQueue = <<>>
    /\ mu = FREE
    /\ conn = "off"
    /\ nextClient = 1
    /\ hostPc = "idle"
    /\ hostRet = <<"none">>
    /\ rangeSlice = <<>>
    /\ rangeIdx = 1
    /\ reqPc = [r \in Workers |-> "idle"]
    /\ reqMsg = [r \in Workers |-> NoMsg]
    /\ nextMsg = 1
    /\ hub = [m \in Msgs |-> "none"]
    /\ resp = [m \in Msgs |-> 0]
    /\ decision = [m \in Msgs |-> NoDecision]
    /\ doneBefore = [m \in Msgs |-> {}]
    /\ publog = <<>>
    /\ enableFailed = FALSE
    /\ qAtDisable = <<>>
    /\ panicked = "no"

Running == panicked = "no"

(* --------------------------- the broker client ------------------------ *)
\* mqttClient.IsConnected() of the client p.mqttClient refers to.
IsConnected == conn = "up"

\* One call of mqttClient.Publish as the broker adapter sees it: the message
\* and whether the token completed without error.
PublishCall(m) == [msg |-> m, ok |-> IsConnected]

\* Mutant: Publish is called only on a client that reports connected.
forwardToMQTTOnlyWhenConnected(m) ==
    publog' = IF IsConnected THEN Append(publog, PublishCall(m)) ELSE publog

\* forwardToMQTT (lines 128-131): Publish on the client p.mqttClient holds
\* now, wait for the token, discard its outcome.
forwardToMQTT(m) == publog' = Append(publog, PublishCall(m))

\* The network drops the link of a connected client.
ConnectionLost ==
    /\ Running
    /\ conn = "up"
    /\ conn' = "down"
    /\ UNCHANGED <<plugVars, hostVars, reqVars, ghostVars, publog, panicked>>

\* paho's auto-reconnect (on by default in NewClientOptions) restores it.
AutoReconnect ==
    /\ Running
    /\ conn = "down"
    /\ conn' = "up"
    /\ UNCHANGED <<plugVars, hostVars, reqVars, ghostVars, publog, panicked>>

(* --------------------------- lifecycle hooks -------------------------- *)
HostIdle == Running /\ hostPc = "idle"

\* A nil dereference in a lifecycle hook: the host thread panics and nothing
\* runs afterwards.
Panic(where) ==
    /\ panicked' = where
    /\ UNCHANGED <<plugVars, hostVars, reqVars, ghostVars, conn, publog>>

SetMessageHandler ==
    /\ HostIdle
    /\ msgHandler' = "handler"
    /\ UNCHANGED <<config, mqttClient, basePath, lastError, messageQueue, mu,
                   hostVars, reqVars, ghostVars, conn, publog, panicked>>

\* RegisterWebhook (lines 97-99): store basePath and add the POST route.
RegisterWebhook ==
    /\ HostIdle
    /\ basePath' = "/plugin/1/custom/"
    /\ UNCHANGED <<config, msgHandler, mqttClient, lastError, messageQueue, mu,
                   hostVars, reqVars, ghostVars, conn, publog, panicked>>

\* Mutant: the port check is off by one at the upper end.
ValidateErrorPortOffByOne(c) ==
    IF ParseIP(c.IP) = NoIP THEN "invalid IP address"
    ELSE IF c.Port < 1 \/ c.Port > 65536 THEN "port out of range"
    ELSE IF c.KeepAlive < 0 THEN "invalid KeepAlive value"
    ELSE NULL

\* The checks of ValidateAndSetConfig (lines 158-170): the error it returns
\* for c, NULL when c passes all three.
ValidateError(c) ==
    IF ParseIP(c.IP) = NoIP THEN "invalid IP address"
    ELSE IF c.Port < 1 \/ c.Port > 65535 THEN "port out of range"
    ELSE IF c.KeepAlive < 0 THEN "invalid KeepAlive value"
    ELSE NULL

\* Mutant: the configuration is installed before it is validated.
InstalledBeforeValidation(c) == <<c>>

\* What p.config holds after ValidateAndSetConfig(c) (lines 159-172).
InstalledConfig(c) == IF ValidateError(c) = NULL THEN <<c>> ELSE config

ValidateAndSetConfig(c) ==
    /\ HostIdle
    /\ config' = InstalledConfig(c)
    /\ hostRet' = IF ValidateError(c) = NULL THEN <<"nil">>
                  ELSE <<"error", ValidateError(c)>>
    /\ UNCHANGED <<msgHandler, mqttClient, basePath, lastError, messageQueue,
                   mu, hostPc, rangeSlice, rangeIdx, nextClient, reqVars,
                   ghostVars, conn, publog, panicked>>

\* Enable, lines 61-66: read p.config (nil dereference when no config was
\* installed), make a new client and store it in p.mqttClient, lock not held.
EnableNewClient ==
    /\ HostIdle
    /\ nextClient <= MaxClients
    /\ IF config = NoConfig
       THEN Panic("Enable:61")
       ELSE /\ mqttClient' = nextClient
            /\ nextClient' = nextClient + 1
            /\ conn' = "off"
            /\ hostPc' = "connect"
            /\ UNCHANGED <<config, msgHandler, basePath, lastError,
                           messageQueue, mu, hostRet, rangeSlice, rangeIdx,
                           reqVars, ghostVars, publog, panicked>>

\* Enable, lines 67-71: Connect() and wait for its token.
ConnectError == "Failed to connect to MQTT Broker"

EnableConnect ==
    /\ Running
    /\ hostPc = "connect"
    /\ \E ok \in BOOLEAN :
         IF ok
         THEN /\ conn' = "up"
              /\ hostPc' = "lock"
              /\ enableFailed' = FALSE
              /\ UNCHANGED <<lastError, hostRet>>
         ELSE /\ lastError' = ConnectError
              /\ hostRet' = <<"error", ConnectError>>
              /\ hostPc' = "idle"
              /\ enableFailed' = TRUE
              /\ UNCHANGED conn
    /\ UNCHANGED <<config, msgHandler, mqttClient, basePath, messageQueue, mu,
                   rangeSlice, rangeIdx, nextClient, reqVars, qAtDisable,
                   publog, panicked>>

\* Mutant: Enable() drains without taking the lock.
EnableLockMissing ==
    /\ Running
    /\ hostPc = "lock"
    /\ rangeSlice' = messageQueue
    /\ rangeIdx' = 1
    /\ hostPc' = "drain"
    /\ UNCHANGED <<config, msgHandler, mqttClient, basePath, lastError,
                   messageQueue, mu, hostRet, nextClient, reqVars, ghostVars,
                   conn, publog, panicked>>

\* Enable, lines 74-75: take the lock; range evaluates p.messageQueue once.
EnableLock ==
    /\ Running
    /\ hostPc = "lock"
    /\ mu = FREE
    /\ mu' = HOST
    /\ rangeSlice' = messageQueue
    /\ rangeIdx' = 1
    /\ hostPc' = "drain"
    /\ UNCHANGED <<config, msgHandler, mqttClient, basePath, lastError,
                   messageQueue, hostRet, nextClient, reqVars, ghostVars, conn,
                   publog, panicked>>

\* Mutant: the queue is not cleared after the loop.
QueueNotCleared == messageQueue

\* p.messageQueue = nil (line 78).
ClearedQueue == <<>>

\* Enable, lines 75-78: one iteration of the loop, or its exit and the clear.
EnableDrain ==
    /\ Running
    /\ hostPc = "drain"
    /\ IF rangeIdx <= Len(rangeSlice)
       THEN /\ forwardToMQTT(rangeSlice[rangeIdx])
            /\ rangeIdx' = rangeIdx + 1
            /\ UNCHANGED <<messageQueue, hostPc, qAtDisable>>
       ELSE /\ messageQueue' = ClearedQueue
            /\ hostPc' = "unlock"
            /\ qAtDisable' = <<>>
            /\ UNCHANGED <<publog, rangeIdx>>
    /\ UNCHANGED <<config, msgHandler, mqttClient, basePath, lastError, mu,
                   hostRet, rangeSlice, nextClient, reqVars, enableFailed,
                   conn, panicked>>

\* Mutant: Enable() ends with "return p.lastError".
EnableResultLastError ==
    IF lastError = NULL THEN <<"nil">> ELSE <<"error", lastError>>

\* What Enable() returns after the drain (line 82).
EnableResult == <<"nil">>

\* Enable, lines 79-82: unlock, log, return nil.
EnableUnlock ==
    /\ Running
    /\ hostPc = "unlock"
    /\ mu' = FREE
    /\ hostPc' = "idle"
    /\ hostRet' = EnableResult
    /\ rangeSlice' = <<>>
    /\ rangeIdx' = 1
    /\ UNCHANGED <<config, msgHandler, mqttClient, basePath, lastError,
                   messageQueue, nextClient, reqVars, ghostVars, conn, publog,
                   panicked>>

\* The link after mqttClient.Disconnect(250).
Disconnected == "off"

\* Mutant: Disable() also drops what is queued.
QueueFlushedByDisable == <<>>

\* p.messageQueue after Disable(): the function does not touch it.
QueueAfterDisable == messageQueue

\* Disable (lines 86-89): Disconnect on p.mqttClient, lock not held; a nil
\* interface when Enable never ran.
Disable ==
    /\ HostIdle
    /\ IF mqttClient = NoClient
       THEN Panic("Disable:87")
       ELSE /\ conn' = Disconnected
            /\ hostRet' = <<"nil">>
            /\ qAtDisable' = messageQueue
            /\ messageQueue' = QueueAfterDisable
            /\ UNCHANGED <<config, msgHandler, mqttClient, basePath, lastError,
                           mu, hostPc, rangeSlice, rangeIdx, nextClient,
                           reqVars, enableFailed, publog, panicked>>

Usage == "Send messages to <location><basePath>message to forward them to MQTT."

\* GetDisplay (lines 134-139).
Display == IF lastError # NULL THEN <<"Error", lastError, Usage>> ELSE <<Usage>>

GetDisplay ==
    /\ HostIdle
    /\ hostRet' = <<"display", Display>>
    /\ UNCHANGED <<plugVars, hostPc, rangeSlice, rangeIdx, nextClient, reqVars,
                   ghostVars, conn, publog, panicked>>

Host ==
    \/ SetMessageHandler
    \/ RegisterWebhook
    \/ ValidateAndSetConfig(DefaultConfig)
    \/ EnableNewClient
    \/ EnableConnect
    \/ EnableLock
    \/ EnableDrain
    \/ EnableUnlock
    \/ Disable

(* ----------------------- the POST /message handler -------------------- *)
Answered == {m \in Msgs : resp[m] # 0}

\* Mutant: the return after the 400 answer is missing.
AfterBindWithoutReturn(parsed) == "send"

\* Where the handler goes after BindJSON returned (lines 102-105).
AfterBind(parsed) == IF parsed THEN "send" ELSE "idle"

\* Lines 100-105: a worker picks up a request; BindJSON parses its body or
\* fails, and then the handler answers 400 and returns.
Receive(r) ==
    /\ Running
    /\ basePath # NULL
    /\ reqPc[r] = "idle"
    /\ \A q \in Workers : reqPc[q] = "idle" => r <= q   \* the pool's next worker
    /\ nextMsg <= MaxMsgs
    /\ nextMsg' = nextMsg + 1
    /\ doneBefore' = [doneBefore EXCEPT ![nextMsg] = Answered]
    /\ \E parsed \in BOOLEAN :
         /\ reqPc' = [reqPc EXCEPT ![r] = AfterBind(parsed)]
         /\ reqMsg' = [reqMsg EXCEPT ![r] =
                           IF AfterBind(parsed) = "idle" THEN NoMsg ELSE nextMsg]
         /\ resp' = [resp EXCEPT ![nextMsg] = IF parsed THEN @ ELSE 400]
    /\ UNCHANGED <<plugVars, hostVars, hub, decision, ghostVars, conn,
                   publog, panicked>>

\* Mutant: the return after the 500 answer is missing.
AfterSendWithoutReturn(delivered) == "lock"

\* Where the handler goes after SendMessage returned (lines 109-112).
AfterSend(delivered) == IF delivered THEN "lock" ELSE "idle"

\* Lines 108-112: hand the message to the hub; on an error answer 500 and
\* return.  p.msgHandler is a nil interface until SetMessageHandler: the call
\* panics, the HTTP server recovers the panic of a handler goroutine, and the
\* request ends without an answer of the handler.
SendMessage(r) ==
    /\ Running
    /\ reqPc[r] = "send"
    /\ IF msgHandler = NULL
       THEN /\ hub' = [hub EXCEPT ![reqMsg[r]] = "panic"]
            /\ reqPc' = [reqPc EXCEPT ![r] = "idle"]
            /\ reqMsg' = [reqMsg EXCEPT ![r] = NoMsg]
            /\ UNCHANGED resp
       ELSE /\ \E delivered \in BOOLEAN :
                 /\ hub' = [hub EXCEPT ![reqMsg[r]] =
                                 IF delivered THEN "ok" ELSE "fail"]
                 /\ reqPc' = [reqPc EXCEPT ![r] = AfterSend(delivered)]
                 /\ reqMsg' = [reqMsg EXCEPT ![r] =
                                   IF AfterSend(delivered) = "idle"
                                   THEN NoMsg ELSE @]
                 /\ resp' = [resp EXCEPT ![reqMsg[r]] =
                                 IF delivered THEN @ ELSE 500]
    /\ UNCHANGED <<plugVars, hostVars, nextMsg, decision, doneBefore,
                   ghostVars, conn, publog, panicked>>

\* Line 115: p.mu.Lock().
Lock(r) ==
    /\ Running
    /\ reqPc[r] = "lock"
    /\ mu = FREE
    /\ mu' = r
    /\ reqPc' = [reqPc EXCEPT ![r] = "check"]
    /\ UNCHANGED <<config, msgHandler, mqttClient, basePath, lastError,
                   messageQueue, hostVars, reqMsg, nextMsg, hub, resp,
                   decision, doneBefore, ghostVars, conn, publog, panicked>>

\* Mutant: only the nil check, IsConnected() is not asked.
PublishNowUnlessNil == mqttClient # NoClient

\* The condition of line 116.
PublishNow == mqttClient # NoClient /\ IsConnected

\* Line 116: the check, made on p.mqttClient as it is now.
Check(r) ==
    /\ Running
    /\ reqPc[r] = "check"
    /\ reqPc' = [reqPc EXCEPT ![r] = IF PublishNow THEN "forward" ELSE "append"]
    /\ decision' = [decision EXCEPT ![reqMsg[r]] =
                        [branch |-> IF PublishNow THEN "publish" ELSE "enqueue",
                         afterFailedEnable |-> enableFailed]]
    /\ UNCHANGED <<plugVars, hostVars, reqMsg, nextMsg, hub, resp, doneBefore,
                   ghostVars, conn, publog, panicked>>

\* Mutant: the publish-now path also drops what is queued.
ForwardFlushing(r) ==
    /\ Running
    /\ reqPc[r] = "forward"
    /\ forwardToMQTT(reqMsg[r])
    /\ messageQueue' = <<>>
    /\ reqPc' = [reqPc EXCEPT ![r] = "unlock"]
    /\ UNCHANGED <<config, msgHandler, mqttClient, basePath, lastError, mu,
                   hostVars, reqMsg, nextMsg, hub, resp, decision, doneBefore,
                   ghostVars, conn, panicked>>

\* Mutant: a message whose publish cannot succeed is put into the queue.
ForwardRequeueing(r) ==
    /\ Running
    /\ reqPc[r] = "forward"
    /\ forwardToMQTT(reqMsg[r])
    /\ messageQueue' = IF IsConnected THEN messageQueue
                       ELSE Append(messageQueue, reqMsg[r])
    /\ reqPc' = [reqPc EXCEPT ![r] = "unlock"]
    /\ UNCHANGED <<config, msgHandler, mqttClient, basePath, lastError, mu,
                   hostVars, reqMsg, nextMsg, hub, resp, decision, doneBefore,
                   ghostVars, conn, panicked>>

\* Line 117: forwardToMQTT(&msg), which reads p.mqttClient again (line 129).
Forward(r) ==
    /\ Running
    /\ reqPc[r] = "forward"
    /\ forwardToMQTT(reqMsg[r])
    /\ reqPc' = [reqPc EXCEPT ![r] = "unlock"]
    /\ UNCHANGED <<plugVars, hostVars, reqMsg, nextMsg, hub, resp,
                   decision, doneBefore, ghostVars, conn, panicked>>

\* Mutant: the message is put at the head of the queue.
EnqueueAtHead(q, m) == <<m>> \o q

\* append(p.messageQueue, msg)
Enqueue(q, m) == Append(q, m)

\* Line 119.
AppendToQueue(r) ==
    /\ Running
    /\ reqPc[r] = "append"
    /\ messageQueue' = Enqueue(messageQueue, reqMsg[r])
    /\ reqPc' = [reqPc EXCEPT ![r] = "unlock"]
    /\ UNCHANGED <<config, msgHandler, mqttClient, basePath, lastError, mu,
                   hostVars, reqMsg, nextMsg, hub, resp, decision,
                   doneBefore, ghostVars, conn, publog, panicked>>

\* Mutant: the handler answers without having released the lock.
UnlockMissing(r) ==
    /\ Running
    /\ reqPc[r] = "unlock"
    /\ reqPc' = [reqPc EXCEPT ![r] = "respond"]
    /\ UNCHANGED <<plugVars, hostVars, reqMsg, nextMsg, hub, resp, decision,
                   doneBefore, ghostVars, conn, publog, panicked>>

\* Mutant: the lock is released on the enqueue branch only.
UnlockOnlyAfterAppend(r) ==
    /\ Running
    /\ reqPc[r] = "unlock"
    /\ mu' = IF decision[reqMsg[r]].branch = "enqueue" THEN FREE ELSE mu
    /\ reqPc' = [reqPc EXCEPT ![r] = "respond"]
    /\ UNCHANGED <<config, msgHandler, mqttClient, basePath, lastError,
                   messageQueue, hostVars, reqMsg, nextMsg, hub, resp,
                   decision, doneBefore, ghostVars, conn, publog, panicked>>

\* Line 121: p.mu.Unlock().
Unlock(r) ==
    /\ Running
    /\ reqPc[r] = "unlock"
    /\ mu' = FREE
    /\ reqPc' = [reqPc EXCEPT ![r] = "respond"]
    /\ UNCHANGED <<config, msgHandler, mqttClient, basePath, lastError,
                   messageQueue, hostVars, reqMsg, nextMsg, hub, resp,
                   decision, doneBefore, ghostVars, conn, publog, panicked>>

\* Line 123: answer 200.
Respond(r) ==
    /\ Running
    /\ reqPc[r] = "respond"
    /\ resp' = [resp EXCEPT ![reqMsg[r]] = 200]
    /\ reqPc' = [reqPc EXCEPT ![r] = "idle"]
    /\ reqMsg' = [reqMsg EXCEPT ![r] = NoMsg]
    /\ UNCHANGED <<plugVars, hostVars, nextMsg, hub, decision,
                   doneBefore, ghostVars, conn, publog, panicked>>

Handler(r) ==
    \/ Receive(r)
    \/ SendMessage(r)
    \/ Lock(r)
    \/ Check(r)
    \/ Forward(r)
    \/ AppendToQueue(r)
    \/ Unlock(r)
    \/ Respond(r)

Next ==
    \/ Host
    \/ \E r \in Workers : Handler(r)
    \/ ConnectionLost
    \/ AutoReconnect

Spec == Init /\ [][Next]_vars

\* Lines 116-121 of a request: the code between Lock and Unlock.
CriticalSection(r) ==
    Check(r) \/ Forward(r) \/ AppendToQueue(r) \/ Unlock(r)

\* The scheduling of Enable()'s lines 74-82: a goroutine that can run does
\* run and every Publish call returns, so a request inside its critical
\* section reaches its Unlock and the loop, the clear and the unlock of
\* Enable() are carried out; sync.Mutex hands the lock to a waiter that keeps
\* being passed over (starvation mode), so Enable()'s Lock is granted.
SpecFair ==
    /\ Spec
    /\ \A r \in Workers : WF_vars(CriticalSection(r))
    /\ SF_vars(EnableLock)
    /\ WF_vars(EnableDrain)
    /\ WF_vars(EnableUnlock)

\* The host thread alone, offered every configuration of Confs.
NextConfig ==
    \/ \E c \in Confs : ValidateAndSetConfig(c)
    \/ EnableNewClient
    \/ EnableConnect
    \/ EnableLock
    \/ EnableDrain
    \/ EnableUnlock
    \/ Disable
    \/ GetDisplay

SpecConfig == Init /\ [][NextConfig]_vars

(* ====================================================================== *)
(*                              Properties                                *)
(* ====================================================================== *)
InSeq(m, q)     == \E i \in 1..Len(q) : q[i] = m
Count(m, q)     == Cardinality({i \in 1..Len(q) : q[i] = m})
LastN(q, n)     == SubSeq(q, Len(q) - n + 1, Len(q))
IsPrefix(a, b)  == Len(a) <= Len(b) /\ SubSeq(b, 1, Len(a)) = a
\* The messages handed to Publish, in call order.
Published       == [i \in 1..Len(publog) |-> publog[i].msg]
\* The handler of m has carried out its branch of line 116 (line 117 or 119).
Acted(m) ==
    \/ resp[m] = 200
    \/ \E r \in Workers : reqMsg[r] = m /\ reqPc[r] \in {"unlock", "respond"}
\* m took the enqueue branch, was appended, and no drain has published it.
Pending(m) ==
    decision[m].branch = "enqueue" /\ Acted(m) /\ ~InSeq(m, Published)
\* q keeps arrival order: a message answered before another one arrived is
\* never behind it.
InArrivalOrder(q) ==
    \A i, j \in 1..Len(q) : i < j => q[j] \notin doneBefore[q[i]]

\* C1: the messages whose hub delivery succeeded while the client was absent
\* or not connected are in the pending queue, exactly once each and in
\* arrival order, and nothing else is; the drain of an Enable() whose connect
\* succeeded calls Publish with exactly the queued messages, in queue order.
C1_QueuedInOrderDrainedInOrder ==
    /\ hostPc # "drain" =>
         /\ \A m \in Msgs : Count(m, messageQueue) = IF Pending(m) THEN 1 ELSE 0
         /\ InArrivalOrder(messageQueue)
    /\ hostPc = "drain" =>
         /\ rangeSlice = messageQueue
         /\ InArrivalOrder(rangeSlice)
         /\ rangeIdx - 1 <= Len(Published)
         /\ LastN(Published, rangeIdx - 1) = SubSeq(rangeSlice, 1, rangeIdx - 1)
    /\ hostPc = "unlock" =>
         /\ Len(rangeSlice) <= Len(Published)
         /\ LastN(Published, Len(rangeSlice)) = rangeSlice

\* Two messages arrived one after the other while disconnected, and a later
\* Enable() connected and has just published both from the queue.
C1_Witness ==
    /\ hostPc = "unlock"
    /\ Len(rangeSlice) = 2
    /\ rangeSlice[1] \in doneBefore[rangeSlice[2]]
    /\ Published = rangeSlice

\* C2: Publish is called at most once for any message, whatever the
\* interleaving of requests, Enable() and Disable().
C2_PublishedAtMostOnce ==
    \A m \in Msgs : Count(m, Published) <= 1

\* A message was drained by the first Enable(); after a Disable() the second
\* Enable() has published what was queued since, and not that message again.
C2_Witness ==
    /\ hostPc = "drain"
    /\ mqttClient = 2
    /\ Len(rangeSlice) = 1
    /\ rangeIdx = 2
    /\ qAtDisable = rangeSlice
    /\ \E m \in Msgs : /\ decision[m].branch = "enqueue"
                       /\ InSeq(m, Published)
                       /\ ~InSeq(m, rangeSlice)

\* C3: a message whose hub delivery failed has been answered 500, its handler
\* has returned, and it is neither in the pending queue (or the slice a drain
\* iterates over) nor among the messages handed to Publish.
C3_HubFailureStopsMessage ==
    \A m \in Msgs :
        hub[m] = "fail" =>
            /\ resp[m] = 500
            /\ decision[m] = NoDecision
            /\ \A r \in Workers : reqMsg[r] = m => reqPc[r] = "idle"
            /\ ~InSeq(m, messageQueue)
            /\ ~InSeq(m, rangeSlice)
            /\ ~InSeq(m, Published)

\* A hub failure, followed by an Enable() that drained another message.
C3_Witness ==
    /\ hostPc = "unlock"
    /\ Len(rangeSlice) = 1
    /\ \E m \in Msgs : hub[m] = "fail" /\ m < rangeSlice[1]

\* C4 (its part about the lifecycle hooks): while a handler is between the
\* check of line 116 and the publish or append that follows it, no step of
\* Enable() or Disable() changes the client p.mqttClient refers to or what
\* that client reports as its connection state.
C4_NoLifecycleStepInsideDecision ==
    [][ (EnableNewClient \/ EnableConnect \/ Disable) =>
          /\ (\E r \in Workers : reqPc[r] \in {"forward", "append"}) =>
                 PublishNow' = PublishNow
          /\ (\E r \in Workers : reqPc[r] = "forward") =>
                 mqttClient' = mqttClient
      ]_vars

\* C5: an Enable() whose connect fails stores a non-nil Last Error and returns
\* it, leaves the pending queue as it was and calls Publish for nothing; and
\* every message whose handler reaches line 116 after that, before a later
\* Enable() connects, takes the enqueue branch and is not published by its
\* handler.
C5_FailedConnectQueuesMessages ==
    [][ /\ (EnableConnect /\ hostPc' = "idle") =>
              /\ lastError' # NULL
              /\ hostRet' = <<"error", lastError'>>
              /\ messageQueue' = messageQueue
              /\ publog' = publog
        /\ \A r \in Workers :
              (enableFailed /\ reqPc[r] = "check" /\ reqPc'[r] # "check") =>
                  /\ reqPc'[r] = "append"
                  /\ publog' = publog
        /\ \A m \in Msgs :
              decision'[m].afterFailedEnable =>
                  /\ decision'[m].branch = "enqueue"
                  /\ Acted(m)' => \/ Count(m, messageQueue') = 1
                                  \/ InSeq(m, Published')
      ]_vars

\* Enable() failed to connect; a message that arrived afterwards was answered
\* 200 and sits in the queue, nothing was published.
C5_Witness ==
    /\ enableFailed
    /\ lastError = ConnectError
    /\ publog = <<>>
    /\ \E m \in Msgs : /\ decision[m].afterFailedEnable
                       /\ resp[m] = 200
                       /\ InSeq(m, messageQueue)

\* C6: Disable() leaves the pending queue as it is, and the drain of the next
\* Enable() that connects publishes the messages that were queued at the
\* Disable(), in their order (followed by those queued since).
C6_DisableKeepsQueue ==
    [][ /\ Disable => messageQueue' = messageQueue /\ publog' = publog
        /\ (hostPc = "drain" /\ hostPc' = "unlock") =>
              /\ IsPrefix(qAtDisable, rangeSlice)
              /\ Len(rangeSlice) <= Len(Published)
              /\ LastN(Published, Len(rangeSlice)) = rangeSlice
      ]_vars

\* Two messages were queued when Disable() ran; the next Enable() connected
\* and has published both.
C6_Witness ==
    /\ hostPc = "drain"
    /\ Len(qAtDisable) = 2
    /\ rangeIdx = 3
    /\ Published = qAtDisable

\* The offered address strings that are IP addresses.
IPAddresses == {IP_10_0_0_5, IP_127_0_0_1}

\* The three conditions of the configuration invariant.
Acceptable(c) ==
    c.IP \in IPAddresses /\ c.Port >= 1 /\ c.Port <= 65535 /\ c.KeepAlive >= 0

\* C7: ValidateAndSetConfig returns nil exactly for the configurations whose
\* ip is an IP address, whose port is in [1,65535] and whose keepAlive is not
\* negative; so the installed configuration, the one Enable() reads, always
\* satisfies the three conditions.
C7_AcceptsExactlyValidConfigs ==
    [][ /\ \A c \in Confs :
              ValidateAndSetConfig(c) => (hostRet' = <<"nil">> <=> Acceptable(c))
        /\ config' # NoConfig => Acceptable(config'[1])
        /\ hostPc' # "idle" => config' # NoConfig
      ]_vars

\* Enable() has connected with a configuration at the upper port limit and
\* keepAlive 0.
C7_Witness ==
    /\ hostPc = "unlock"
    /\ config # NoConfig
    /\ config[1].Port = 65535
    /\ config[1].KeepAlive = 0

\* C8: a rejected configuration makes ValidateAndSetConfig return an error
\* and leaves p.config as it was; an accepted one becomes p.config as a whole.
C8_RejectKeepsAcceptReplaces ==
    [][ \A c \in Confs :
            ValidateAndSetConfig(c) =>
                IF Acceptable(c)
                THEN hostRet' = <<"nil">> /\ config' = <<c>>
                ELSE hostRet'[1] = "error" /\ config' = config
      ]_vars

\* A configuration is installed and the last call rejected another one.
C8_Witness ==
    /\ config = <<DefaultConfig>>
    /\ hostRet = <<"error", "port out of range">>

\* C9: a request whose body does not parse is answered 400 and changes
\* nothing else: no hub delivery, no change to the plugin's fields or the
\* client, no Publish; its message never reaches the hub, queue or broker.
C9_ParseErrorChangesNothing ==
    [][ /\ \A r \in Workers :
              (Receive(r) /\ resp'[nextMsg] # 0) =>
                  /\ resp'[nextMsg] = 400
                  /\ reqPc' = reqPc
                  /\ UNCHANGED <<plugVars, hub, decision, conn, publog>>
        /\ \A m \in Msgs :
              resp'[m] = 400 =>
                  /\ hub'[m] = "none"
                  /\ decision'[m] = NoDecision
                  /\ ~InSeq(m, messageQueue')
                  /\ ~InSeq(m, Published')
      ]_vars

\* A malformed request was answered 400 after another message was queued.
C9_Witness ==
    /\ messageQueue # <<>>
    /\ \E m \in Msgs : resp[m] = 400 /\ messageQueue[1] < m

\* C10: a message is answered 200 only when its hub delivery succeeded and
\* its handler has published or enqueued it, and the handler answers only
\* after it released the lock.
C10_SuccessOnlyAfterBothSteps ==
    /\ \A m \in Msgs :
          resp[m] = 200 =>
              /\ hub[m] = "ok"
              /\ decision[m].branch # "none"
              /\ InSeq(m, messageQueue) \/ InSeq(m, Published)
    /\ \A r \in Workers :
          reqPc[r] = "respond" =>
              /\ mu # r
              /\ hub[reqMsg[r]] = "ok"
              /\ InSeq(reqMsg[r], messageQueue) \/ InSeq(reqMsg[r], Published)

\* One message answered 200 after being published, one after being queued.
C10_Witness ==
    \E m, n \in Msgs :
        /\ resp[m] = 200 /\ resp[n] = 200
        /\ decision[m].branch = "publish" /\ InSeq(m, Published)
        /\ decision[n].branch = "enqueue" /\ InSeq(n, messageQueue)

\* C11: when Enable() has connected and takes the lock with the pending queue
\* empty, the drain calls Publish for nothing, leaves the queue empty and
\* Enable() returns nil; a repeated Enable() does the same.
C11_EmptyDrainIsNoOp ==
    [][ /\ (hostPc = "lock" /\ hostPc' = "drain" /\ messageQueue = <<>>) =>
              rangeSlice' = <<>> /\ publog' = publog /\ messageQueue' = <<>>
        /\ (hostPc \in {"drain", "unlock"} /\ rangeSlice = <<>>) =>
              /\ publog' = publog
              /\ messageQueue' = <<>>
              /\ hostPc' # hostPc =>
                    \/ hostPc = "drain" /\ hostPc' = "unlock"
                    \/ hostPc = "unlock" /\ hostPc' = "idle"
                                         /\ hostRet' = <<"nil">>
      ]_vars

\* A second Enable() finds the queue empty again after a first one that had
\* failed to connect, nothing was ever published, and it is about to return.
C11_Witness ==
    /\ hostPc = "unlock"
    /\ mqttClient = 2
    /\ rangeSlice = <<>>
    /\ lastError # NULL
    /\ publog = <<>>

\* C12 (its case of Disable()): Disable() never aborts the host, it returns
\* in every reachable state, also on an instance Enable() never ran on.
C12_DisableNeverAborts == panicked # "Disable:87"

\* The last Enable() attempt connected (it is draining, or it has returned).
LastEnableConnected ==
    mqttClient # NoClient /\ ~enableFailed /\ hostPc # "connect"

\* C13: once an Enable() has connected, Last Error is empty and the status
\* display is the usage instructions alone, whatever happened before.
C13_SuccessClearsLastError ==
    LastEnableConnected => lastError = NULL /\ Display = <<Usage>>

\* C14: Publish is never called for a message while a message that was
\* enqueued before its decision is still unpublished: when a handler
\* publishes at line 117 (the queue is then as it was at its check, both are
\* under the lock), everything in the queue has been published already.
C14_NoPublishAheadOfQueued ==
    [][ \A r \in Workers :
            Forward(r) =>
                \A i \in 1..Len(messageQueue) :
                    InSeq(messageQueue[i], Published) ]_vars

\* C15: while nobody holds the lock, every message whose request was answered
\* 200 is in exactly one place: once in the pending queue and never handed to
\* Publish, or handed to Publish once and not in the queue.
C15_AcceptedInOnePlace ==
    mu = FREE =>
        \A m \in Msgs :
            resp[m] = 200 =>
                \/ Count(m, messageQueue) = 1 /\ Count(m, Published) = 0
                \/ Count(m, messageQueue) = 0 /\ Count(m, Published) = 1

\* One accepted message waits in the queue and another one has been
\* published, with the lock free.
C15_Witness ==
    /\ mu = FREE
    /\ \E m, n \in Msgs :
         /\ resp[m] = 200 /\ InSeq(m, messageQueue)
         /\ resp[n] = 200 /\ InSeq(n, Published) /\ ~InSeq(n, messageQueue)

\* C16: from the start of the drain loop until Enable() unlocks, the host
\* holds the lock and no request is between its Lock and its Unlock, so the
\* queue is the slice the loop ranges over; and every message the clear of
\* line 78 discards has been handed to Publish.
C16_DrainHoldsTheLock ==
    [][ /\ hostPc \in {"drain", "unlock"} =>
             /\ mu = HOST
             /\ \A r \in Workers :
                    reqPc[r] \notin {"check", "forward", "append", "unlock"}
        /\ hostPc = "drain" => messageQueue = rangeSlice
        /\ (hostPc = "drain" /\ hostPc' = "unlock") =>
             /\ messageQueue' = <<>>
             /\ \A i \in 1..Len(messageQueue) :
                    InSeq(messageQueue[i], Published)
      ]_vars

\* The drain has published a queued message and cleared the queue while a
\* concurrent request waits for the lock.
C16_Witness ==
    /\ hostPc = "unlock" /\ mu = HOST
    /\ Len(rangeSlice) >= 1 /\ messageQueue = <<>>
    /\ LastN(Published, Len(rangeSlice)) = rangeSlice
    /\ \E r \in Workers : reqPc[r] = "lock"

\* The messages of the Publish calls that did not succeed.
FailedPublishes == {publog[i].msg : i \in {j \in 1..Len(publog) : ~publog[j].ok}}

\* C17: a message whose Publish was unsuccessful is dropped.  Publish was
\* called for it once only; if the handler published it (line 117) it is not
\* in the queue and its request goes on to the 200 answer; if the drain
\* published it (line 76) it is gone from the queue once the loop is over;
\* and Enable() ends by returning nil with the queue cleared.
C17_FailedPublishIsDropped ==
    [][ /\ \A m \in FailedPublishes :
             /\ Count(m, Published) = 1
             /\ decision[m].branch = "publish" =>
                   /\ ~InSeq(m, messageQueue)
                   /\ \/ resp[m] = 200
                      \/ \E r \in Workers :
                            reqMsg[r] = m /\ reqPc[r] \in {"unlock", "respond"}
             /\ decision[m].branch = "enqueue" =>
                   (hostPc = "drain" \/ ~InSeq(m, messageQueue))
        /\ (hostPc = "unlock" /\ hostPc' = "idle") =>
             /\ hostRet' = <<"nil">>
             /\ messageQueue' = <<>>
             /\ publog' = publog
      ]_vars

\* A publish of the handler failed and its request was answered 200; a
\* publish of the drain failed and Enable() returned nil with an empty queue.
C17_Witness ==
    /\ hostPc = "idle" /\ hostRet = <<"nil">> /\ messageQueue = <<>>
    /\ \E m, n \in FailedPublishes :
         /\ decision[m].branch = "publish" /\ resp[m] = 200
         /\ decision[n].branch = "enqueue" /\ resp[n] = 200

\* C18: once Enable()'s connect has succeeded, the drain completes: the loop
\* ends with Publish called exactly once, in order, for each message that was
\* queued when Enable() took the lock and the queue is cleared; then the lock
\* is released with the queue empty and Enable() returns nil.
C18_DrainCompletes ==
    /\ hostPc = "lock" ~>
         /\ hostPc = "unlock" /\ mu = HOST /\ messageQueue = <<>>
         /\ Len(rangeSlice) <= Len(Published)
         /\ LastN(Published, Len(rangeSlice)) = rangeSlice
         /\ \A i \in 1..Len(rangeSlice) : Count(rangeSlice[i], Published) = 1
    /\ hostPc = "unlock" ~>
         /\ hostPc = "idle" /\ hostRet = <<"nil">>
         /\ mu = FREE /\ messageQueue = <<>>

\* The loop of an Enable() that follows a failed one has published both
\* queued messages and cleared the queue.
C18_Witness ==
    /\ hostPc = "unlock" /\ lastError # NULL
    /\ Len(rangeSlice) = 2 /\ Published = rangeSlice
    /\ messageQueue = <<>>

\* C19: a message whose request was answered 200 "Message forwarded to MQTT
\* and Gotify" has been handed to Publish.
C19_Answer200MeansPublished ==
    \A m \in Msgs : resp[m] = 200 => InSeq(m, Published)

\* C20: the queue loses messages only by the clear of Enable()'s drain.  A
\* step that changes the queue is that clear or a handler appending its own
\* message at the tail; a Publish call for a message that is in the queue is
\* made by the drain loop, and a handler's Publish call is for its own
\* message, which is not in the queue, and leaves the queue as it is.
C20_OnlyTheDrainEmptiesTheQueue ==
    [][ /\ messageQueue' # messageQueue =>
             \/ hostPc = "drain" /\ hostPc' = "unlock" /\ messageQueue' = <<>>
             \/ \E r \in Workers :
                   /\ reqPc[r] = "append" /\ reqPc'[r] = "unlock"
                   /\ messageQueue' = Append(messageQueue, reqMsg[r])
        /\ publog' # publog =>
             /\ Len(publog') = Len(publog) + 1
             /\ SubSeq(publog', 1, Len(publog)) = publog
             /\ LET m == publog'[Len(publog')].msg
                IN  IF InSeq(m, messageQueue)
                    THEN hostPc = "drain" /\ hostPc' = "drain"
                    ELSE /\ \E r \in Workers :
                               /\ reqPc[r] = "forward" /\ reqMsg[r] = m
                               /\ reqPc'[r] = "unlock"
                         /\ messageQueue' = messageQueue
      ]_vars

\* A message queued while disconnected is still queued and unpublished, no
\* Enable() is running, and a newer message was published by its handler
\* and answered 200.
C20_Witness ==
    /\ hostPc = "idle" /\ mu = FREE
    /\ \E m, n \in Msgs :
         /\ m < n
         /\ messageQueue = <<m>> /\ resp[m] = 200 /\ ~InSeq(m, Published)
         /\ decision[n].branch = "publish" /\ resp[n] = 200
         /\ Published = <<n>>

====
